---- MODULE Spec2Model ----
(***************************************************************************)
(* pyllama: an interactive console client for a local model server.        *)
(* The model follows src/pyllama.py: main's catalog loop, select_model,    *)
(* secondary_menu and its five choices, the Copy operation, and run_model  *)
(* with its buffered session log.                                          *)
(*                                                                         *)
(* A step of the model runs the program from one blocking call (a console  *)
(* read, the catalog GET, the next fragment of a chat stream) to the next. *)
(* Text is a sequence of one-character strings, so that int(), float() and *)
(* str.lower() are computed on the characters.                             *)
(***************************************************************************)
EXTENDS Integers, Sequences, FiniteSets, TLC

\* ------------------------------------------------------------------ bounds
\* prompts read in one chat session
MaxPrompts == 2
\* fragments delivered by one chat stream
MaxChunks == 2
\* distinct clock seconds in which a chat session can start: 0..MaxClock
MaxClock == 1

\* ------------------------------------------------------------------ text
Digits == {"0", "1", "2", "3", "4", "5", "6", "7", "8", "9"}

DigitVal(c) ==
    CASE c = "0" -> 0 [] c = "1" -> 1 [] c = "2" -> 2 [] c = "3" -> 3
      [] c = "4" -> 4 [] c = "5" -> 5 [] c = "6" -> 6 [] c = "7" -> 7
      [] c = "8" -> 8 [] c = "9" -> 9 [] OTHER -> 0

Whitespace == {" "}

RECURSIVE LStrip(_)
LStrip(s) == IF s /= <<>> /\ Head(s) \in Whitespace THEN LStrip(Tail(s)) ELSE s

RECURSIVE RStrip(_)
RStrip(s) ==
    IF s /= <<>> /\ s[Len(s)] \in Whitespace
    THEN RStrip(SubSeq(s, 1, Len(s) - 1))
    ELSE s

Strip(s) == LStrip(RStrip(s))

AllDigits(s) == s /= <<>> /\ \A i \in 1..Len(s) : s[i] \in Digits

RECURSIVE DigitsVal(_)
DigitsVal(s) ==
    IF s = <<>> THEN 0
    ELSE 10 * DigitsVal(SubSeq(s, 1, Len(s) - 1)) + DigitVal(s[Len(s)])

Unsigned(s) == IF s /= <<>> /\ Head(s) \in {"+", "-"} THEN Tail(s) ELSE s

IsNegative(s) == s /= <<>> /\ Head(s) = "-"

\* int(text): surrounding blanks are dropped, one sign is allowed, the rest
\* must be decimal digits; anything else raises ValueError (ok = FALSE).
ParseInt(text) ==
    LET s == Strip(text)
        d == Unsigned(s)
    IN  IF AllDigits(d)
        THEN [ok |-> TRUE, val |-> IF IsNegative(s) THEN 0 - DigitsVal(d) ELSE DigitsVal(d)]
        ELSE [ok |-> FALSE, val |-> 0]

\* position of the first "." of s, 0 when there is none
DotAt(s) ==
    IF \E i \in 1..Len(s) : s[i] = "."
    THEN CHOOSE i \in 1..Len(s) : s[i] = "." /\ \A j \in 1..(i - 1) : s[j] /= "."
    ELSE 0

RECURSIVE DropTrailingZeros(_)
DropTrailingZeros(s) ==
    IF s /= <<>> /\ s[Len(s)] = "0"
    THEN DropTrailingZeros(SubSeq(s, 1, Len(s) - 1))
    ELSE s

\* float(text) for decimal literals without exponent: blanks dropped, one
\* sign, digits with at most one "." and a digit on one side of it at least.
\* The value is kept exactly: sign, integer part, fraction digits.
ParseFloat(text) ==
    LET s == Strip(text)
        d == Unsigned(s)
        k == DotAt(d)
        ip == IF k = 0 THEN d ELSE SubSeq(d, 1, k - 1)
        fp == IF k = 0 THEN <<>> ELSE SubSeq(d, k + 1, Len(d))
        wellFormed ==
            /\ \A i \in 1..Len(ip) : ip[i] \in Digits
            /\ \A i \in 1..Len(fp) : fp[i] \in Digits
            /\ Len(ip) + Len(fp) > 0
    IN  IF wellFormed
        THEN [ok |-> TRUE,
              val |-> [neg |-> IsNegative(s), int |-> DigitsVal(ip),
                       frac |-> DropTrailingZeros(fp)]]
        ELSE [ok |-> FALSE, val |-> [neg |-> FALSE, int |-> 0, frac |-> <<>>]]

LowerChar(c) ==
    CASE c = "E" -> "e" [] c = "X" -> "x" [] c = "I" -> "i" [] c = "T" -> "t"
      [] c = "H" -> "h" [] OTHER -> c

\* str.lower()
Lower(s) == [i \in 1..Len(s) |-> LowerChar(s[i])]

\* ------------------------------------------------------------------ values
\* One console line, external call or log-file write: what it is, its text
\* arguments, and up to two numbers.
Ev(t) == [t |-> t, p |-> <<>>, n |-> 0, m |-> 0]
EvP(t, p) == [t |-> t, p |-> p, n |-> 0, m |-> 0]
EvN(t, n) == [t |-> t, p |-> <<>>, n |-> n, m |-> 0]
\* input(): the text the user typed
Input(text) == EvP("input", text)

PyInt(n) == [none |-> FALSE, int |-> n]
PyNone == [none |-> TRUE, int |-> 0]

ModelNames == {"llama", "phi"}
NoModel == [name |-> ""]

\* the catalogs the server can answer with: every list of distinct models
Catalogs ==
    {<<>>}
    \cup {<<[name |-> a]>> : a \in ModelNames}
    \cup {<<[name |-> a], [name |-> b]>> : <<a, b>> \in {x \in ModelNames \X ModelNames : x[1] /= x[2]}}

\* what requests.get can meet: no connection, a non-200 status, or a 200
\* whose JSON body has a "models" array or lacks the key
ServerResponses ==
    {[reachable |-> FALSE, status_code |-> 0, json |-> [detail |-> <<>>]]}
    \cup {[reachable |-> TRUE, status_code |-> 500, json |-> [detail |-> <<>>]]}
    \cup {[reachable |-> TRUE, status_code |-> 200, json |-> [detail |-> <<>>]]}
    \cup {[reachable |-> TRUE, status_code |-> 200, json |-> [models |-> c]] : c \in Catalogs}

\* console answers to "Select a model by number: "
SelectInputs ==
    {<<"1">>, <<"2">>, <<"3">>, <<"0">>, <<"-", "1">>, <<"+", "2">>, <<" ", "1", " ">>,
     <<"x">>, <<>>, <<"1", ".", "0">>}

\* console answers to "Enter your choice (1/2/3/4): "
MenuInputs ==
    {<<"1">>, <<"2">>, <<"3">>, <<"4">>, <<"5">>, <<"6">>, <<>>, <<"5", " ">>}

\* console answers to "Enter a prompt > "
Prompts ==
    {<<"e", "x", "i", "t">>, <<"E", "x", "i", "T">>, <<"h", "i">>, <<>>}

ExitWord == <<"e", "x", "i", "t">>

VARIABLES
    pc,             \* where the program is blocked, or "done" / "crashed"
    models,         \* main: the catalog of the current cycle
    selected_model, \* the model secondary_menu is bound to, NoModel outside it
    check,          \* main: what secondary_menu returned
    io,             \* console lines and external calls of the last step, in order
    console,        \* run_model: what the current or last session printed
    user_prompt,    \* run_model: the prompt read last
    nprompts,       \* run_model: prompts read in the session
    nchunks,        \* run_model: fragments taken from the current stream
    log_path,       \* run_model: the second named by log_file_path, -1 before any session
    log_file,       \* run_model: the file object, its state and unflushed buffer
    log_disk,       \* the file at log_file_path as it is on disk
    modelfiles      \* the <name>.modelfile files in the working directory

vars ==
    <<pc, models, selected_model, check, io, console, user_prompt, nprompts,
      nchunks, log_path, log_file, log_disk, modelfiles>>

mainVars == <<models, check>>
chatVars == <<console, user_prompt, nprompts, nchunks, log_path, log_file, log_disk>>

\* ------------------------------------------------------------------ catalog
\* get_installed_models: raised is the exception of requests.get escaping
GetInstalledModels(resp) ==
    IF ~resp.reachable
    THEN [raised |-> TRUE, value |-> <<>>, io |-> <<Ev("GET /api/tags/")>>]
    ELSE IF resp.status_code = 200
    THEN [raised |-> FALSE,
          value |-> IF "models" \in DOMAIN resp.json THEN resp.json.models ELSE <<>>,
          io |-> <<Ev("GET /api/tags/")>>]
    ELSE [raised |-> FALSE, value |-> <<>>,
          io |-> <<Ev("GET /api/tags/"), EvN("Failed to retrieve models", resp.status_code)>>]

\* a table whose rows are numbered from 0
PrintModelMenuFromZero(ms) ==
    <<Ev("Installed Models:")>>
    \o [i \in 1..Len(ms) |-> [t |-> "row", p |-> <<ms[i].name>>, n |-> i - 1, m |-> 0]]

\* print_model_menu: the heading and one table row per model, indexed from 1
PrintModelMenu(ms) ==
    <<Ev("Installed Models:")>>
    \o [i \in 1..Len(ms) |-> [t |-> "row", p |-> <<ms[i].name>>, n |-> i, m |-> 0]]

SecondaryMenuText == <<Ev("Secondary Menu:")>>

\* a test that never finds the catalog empty
NotModelsNever(ms) == FALSE
\* "if not models" in main
NotModels(ms) == Len(ms) = 0

\* a loop that ignores the sentinel
MainContinuesAlways(chk) == TRUE
\* the loop condition of main
MainContinues(chk) == chk /= PyInt(-1)

\* main, from the top of its loop to the next console read
MainFetch(resp) ==
    /\ pc = "fetch"
    /\ LET r == GetInstalledModels(resp) IN
        IF r.raised
        THEN /\ pc' = "crashed"
             /\ io' = r.io
             /\ UNCHANGED models
        ELSE /\ models' = r.value
             /\ IF NotModels(r.value)
                THEN /\ io' = r.io \o <<Ev("No models found.")>>
                     /\ pc' = "done"
                ELSE /\ io' = r.io \o PrintModelMenu(r.value)
                     /\ pc' = "select_input"
    /\ UNCHANGED <<selected_model, check, modelfiles>>
    /\ UNCHANGED chatVars

\* a selection that indexes the list from the wrong end
SelectModelWrongIndex(ms, text) ==
    LET r == ParseInt(text) IN
    IF r.ok /\ 1 <= r.val /\ r.val <= Len(ms)
    THEN [returned |-> TRUE, value |-> ms[Len(ms) + 1 - r.val], io |-> <<Input(text)>>]
    ELSE [returned |-> FALSE, value |-> NoModel,
          io |-> <<Input(text), Ev("Please enter a valid number.")>>]

\* one pass of select_model's loop on the text typed
SelectModel(ms, text) ==
    LET r == ParseInt(text) IN
    IF ~r.ok
    THEN [returned |-> FALSE, value |-> NoModel,
          io |-> <<Input(text), Ev("Please enter a valid number.")>>]
    ELSE IF 1 <= r.val /\ r.val <= Len(ms)
    THEN [returned |-> TRUE, value |-> ms[r.val], io |-> <<Input(text)>>]
    ELSE [returned |-> FALSE, value |-> NoModel,
          io |-> <<Input(text), Ev("Invalid selection. Please choose a valid number.")>>]

\* a valid answer: main binds the model and secondary_menu shows its menu
SelectValid(text) ==
    /\ pc = "select_input"
    /\ LET r == SelectModel(models, text) IN
        /\ r.returned
        /\ selected_model' = r.value
        /\ io' = r.io \o SecondaryMenuText
        /\ pc' = "menu_input"
    /\ UNCHANGED <<models, check, modelfiles>>
    /\ UNCHANGED chatVars

\* an invalid answer: the message, and the prompt again
SelectInvalid(text) ==
    /\ pc = "select_input"
    /\ LET r == SelectModel(models, text) IN
        /\ ~r.returned
        /\ io' = r.io
    /\ UNCHANGED <<pc, selected_model, modelfiles>>
    /\ UNCHANGED mainVars
    /\ UNCHANGED chatVars

\* ------------------------------------------------------------------ secondary menu
\* a menu that trims the text typed before it compares it
DispatchTrimmed(choice) ==
    LET c == Strip(choice) IN
    IF c = <<"1">> THEN "run"
    ELSE IF c = <<"2">> THEN "details"
    ELSE IF c = <<"3">> THEN "copy"
    ELSE IF c = <<"4">> THEN "back"
    ELSE IF c = <<"5">> THEN "exit"
    ELSE "invalid"

\* the if/elif chain of secondary_menu on the text typed
Dispatch(choice) ==
    IF choice = <<"1">> THEN "run"
    ELSE IF choice = <<"2">> THEN "details"
    ELSE IF choice = <<"3">> THEN "copy"
    ELSE IF choice = <<"4">> THEN "back"
    ELSE IF choice = <<"5">> THEN "exit"
    ELSE "invalid"

\* a Back that hands the sentinel to main, as Exit does
SecondaryMenuResultBackExits(choice) == PyInt(-1)

\* what secondary_menu hands back to main: None after break, -1 after Exit
SecondaryMenuResult(choice) ==
    IF Dispatch(choice) = "exit" THEN PyInt(-1) ELSE PyNone

\* main after secondary_menu returned: assign check, test the loop condition
MainAfterMenu(result) ==
    /\ check' = result
    /\ selected_model' = NoModel
    /\ pc' = IF MainContinues(result) THEN "fetch" ELSE "done"

MenuBack(choice) ==
    /\ pc = "menu_input"
    /\ Dispatch(choice) = "back"
    /\ MainAfterMenu(SecondaryMenuResult(choice))
    /\ io' = <<Input(choice)>>
    /\ UNCHANGED <<models, modelfiles>>
    /\ UNCHANGED chatVars

MenuExit(choice) ==
    /\ pc = "menu_input"
    /\ Dispatch(choice) = "exit"
    /\ MainAfterMenu(SecondaryMenuResult(choice))
    /\ io' = <<Input(choice)>>
    /\ UNCHANGED <<models, modelfiles>>
    /\ UNCHANGED chatVars

MenuInvalid(choice) ==
    /\ pc = "menu_input"
    /\ Dispatch(choice) = "invalid"
    /\ io' = <<Input(choice), Ev("Invalid option. Please try again.")>> \o SecondaryMenuText
    /\ UNCHANGED <<pc, selected_model, modelfiles>>
    /\ UNCHANGED mainVars
    /\ UNCHANGED chatVars

\* show_model_details: a fresh catalog, and the fields of every entry of that name
ShowModelDetails(name, resp) ==
    LET r == GetInstalledModels(resp)
        hits == SelectSeq(r.value, LAMBDA mdl : mdl.name = name)
    IN  [raised |-> r.raised,
         io |-> <<EvP("Details for model:", <<name>>)>> \o r.io
                \o [i \in 1..Len(hits) |-> EvP("Model Name:", <<hits[i].name>>)]]

MenuDetails(choice, resp) ==
    /\ pc = "menu_input"
    /\ Dispatch(choice) = "details"
    /\ LET r == ShowModelDetails(selected_model.name, resp) IN
        IF r.raised
        THEN /\ pc' = "crashed"
             /\ io' = <<Input(choice)>> \o r.io
        ELSE /\ pc' = "menu_input"
             /\ io' = <<Input(choice)>> \o r.io \o SecondaryMenuText
    /\ UNCHANGED <<selected_model, modelfiles>>
    /\ UNCHANGED mainVars
    /\ UNCHANGED chatVars

\* ------------------------------------------------------------------ copy
DigitChar(d) ==
    CASE d = 0 -> "0" [] d = 1 -> "1" [] d = 2 -> "2" [] d = 3 -> "3" [] d = 4 -> "4"
      [] d = 5 -> "5" [] d = 6 -> "6" [] d = 7 -> "7" [] d = 8 -> "8" [] OTHER -> "9"

RECURSIVE NatText(_)
NatText(n) == IF n < 10 THEN <<DigitChar(n)>> ELSE NatText(n \div 10) \o <<DigitChar(n % 10)>>

\* str(n) of an int
IntText(n) == IF n < 0 THEN <<"-">> \o NatText(0 - n) ELSE NatText(n)

\* str(x) of a float in the range written without exponent
FloatText(x) ==
    (IF x.neg THEN <<"-">> ELSE <<>>)
    \o NatText(x.int) \o <<".">> \o (IF x.frac = <<>> THEN <<"0">> ELSE x.frac)

NewModelNames == {"m2"}

\* the five answers typed for one Copy: the examples of the prompts, an
\* integer where a float is asked, and answers that do not parse: a word, a
\* float where an int is asked, nothing at all
ParamScripts ==
    LET good == <<<<"0", ".", "7">>, <<"2", "0", "4", "8">>, <<"5", "0">>,
                  <<"0", ".", "9">>, <<"0", ".", "0", "1">>>>
    IN  {good,
         [good EXCEPT ![1] = <<"1">>],
         [good EXCEPT ![1] = <<"a", "b", "c">>],
         [good EXCEPT ![2] = <<"0", ".", "7">>],
         [good EXCEPT ![4] = <<"a", "b", "c">>],
         [good EXCEPT ![5] = <<>>]}

\* get_user_parameters: the answers are read and parsed one after the other;
\* the first that does not parse raises ValueError and no more are read.
GetUserParameters(script) ==
    LET parsed == <<ParseFloat(script[1]), ParseInt(script[2]), ParseInt(script[3]),
                    ParseFloat(script[4]), ParseFloat(script[5])>>
        bad == {i \in 1..5 : ~parsed[i].ok}
        first == IF bad = {} THEN 5 ELSE CHOOSE i \in bad : \A j \in bad : i <= j
    IN  [raised |-> bad /= {},
         asked |-> first,
         value |-> <<<<"temperature", FloatText(parsed[1].val)>>,
                     <<"num_ctx", IntText(parsed[2].val)>>,
                     <<"top_k", IntText(parsed[3].val)>>,
                     <<"top_p", FloatText(parsed[4].val)>>,
                     <<"min_p", FloatText(parsed[5].val)>>>>]

\* a writer that sorts the parameters by key
WriteToModelFileSorted(original_model_name, parameters) ==
    <<EvP("FROM", <<original_model_name>>)>>
    \o [i \in 1..Len(parameters) |->
          LET q == parameters[<<5, 2, 1, 3, 4>>[i]] IN EvP("PARAMETER", <<q[1]>> \o q[2])]

\* write_to_model_file: the lines written, in order
WriteToModelFile(original_model_name, parameters) ==
    <<EvP("FROM", <<original_model_name>>)>>
    \o [i \in 1..Len(parameters) |-> EvP("PARAMETER", <<parameters[i][1]>> \o parameters[i][2])]

ToolOutcomes == {"ok", "nonzero", "missing"}

\* how subprocess.run ended: exit status zero, CalledProcessError, or
\* FileNotFoundError
ToolResult(outcome) == EvP("subprocess.run", <<outcome>>)

\* a call that does not look at how the tool ended
CreateOllamaModelUnchecked(model_name, outcome) ==
    <<EvP("ollama create", <<model_name, "-f", model_name, ".modelfile">>),
      ToolResult(outcome),
      EvP("Model created successfully.", <<model_name>>)>>

\* create_ollama_model_with_config: the tool is run on the file; any failure
\* is caught and printed
CreateOllamaModelWithConfig(model_name, outcome) ==
    <<EvP("ollama create", <<model_name, "-f", model_name, ".modelfile">>),
      ToolResult(outcome),
      IF outcome = "ok"
      THEN EvP("Model created successfully.", <<model_name>>)
      ELSE EvP("Error creating model:", <<outcome>>)>>

\* the answers get_user_parameters read before it returned or raised
ParameterInputs(script, n) == [i \in 1..n |-> Input(script[i])]

\* Copy with five answers that parse
MenuCopy(choice, new_model_name, script, outcome) ==
    /\ pc = "menu_input"
    /\ Dispatch(choice) = "copy"
    /\ LET r == GetUserParameters(script) IN
        /\ ~r.raised
        /\ modelfiles' =
              [modelfiles EXCEPT ![new_model_name] =
                  [exists |-> TRUE, lines |-> WriteToModelFile(selected_model.name, r.value)]]
        /\ io' = <<Input(choice), Input(<<new_model_name>>)>> \o ParameterInputs(script, r.asked)
                 \o <<EvP("write", <<new_model_name, ".modelfile">>)>>
                 \o CreateOllamaModelWithConfig(new_model_name, outcome)
                 \o SecondaryMenuText
    /\ UNCHANGED <<pc, selected_model>>
    /\ UNCHANGED mainVars
    /\ UNCHANGED chatVars

\* Copy with an answer that does not parse: ValueError leaves
\* get_user_parameters, secondary_menu and main
MenuCopyParseError(choice, new_model_name, script) ==
    /\ pc = "menu_input"
    /\ Dispatch(choice) = "copy"
    /\ LET r == GetUserParameters(script) IN
        /\ r.raised
        /\ io' = <<Input(choice), Input(<<new_model_name>>)>> \o ParameterInputs(script, r.asked)
    /\ pc' = "crashed"
    /\ UNCHANGED <<selected_model, modelfiles>>
    /\ UNCHANGED mainVars
    /\ UNCHANGED chatVars

\* ------------------------------------------------------------------ chat session
UserLine(prompt) == EvP("User: ", prompt)
AssistantPrefix == Ev("Assistant: ")
Separator == Ev("----------")
\* the i-th fragment of the response to the r-th prompt of the session
Fragment(r, i) == [t |-> "fragment", p |-> <<>>, n |-> r, m |-> i]
Announcement(path) == EvN("Session log saved to:", path)
ErrorLine == Ev("An error occurred:")

NoFile == [exists |-> FALSE, content |-> <<>>]
NoHandle == [state |-> "none", buf |-> <<>>]

\* a write that puts the text into the buffer twice
FileWriteTwice(f, data) == [f EXCEPT !.buf = @ \o <<data, data>>]
\* log_file.write: the text goes to the buffer of the file object
FileWrite(f, data) == [f EXCEPT !.buf = Append(@, data)]
\* a flush that leaves the file on disk as it is
FlushDiskNothing(f, d) == d
\* a flush that replaces the file on disk by the buffer
FlushDiskOverwrites(f, d) == [d EXCEPT !.content = f.buf]
\* log_file.flush: the buffer reaches the file on disk ...
FlushDisk(f, d) == [d EXCEPT !.content = @ \o f.buf]
\* ... and is emptied
FlushFile(f) == [f EXCEPT !.buf = <<>>]
\* a close that drops what is still buffered
CloseDiskDropsBuffer(f, d) == d
\* leaving the with block closes the file, which flushes it first
CloseDisk(f, d) == FlushDisk(f, d)
\* a handler that leaves the file open
CloseFileLeavesOpen(f) == f
CloseFile(f) == [state |-> "closed", buf |-> <<>>]

\* the call open(log_file_path, "w") for the second t, on a file of
\* Len(d.content) records
OpenCall(t, d) == [t |-> "open w", p |-> <<>>, n |-> t, m |-> Len(d.content)]

\* an open that keeps what the file holds
OpenDiskAppend(d) == [exists |-> TRUE, content |-> d.content]

\* open(log_file_path, "w"): the file is created, or emptied if it exists
OpenDisk(d) == [exists |-> TRUE, content |-> <<>>]

\* a loop condition that compares the prompt as typed
SessionContinuesCaseSensitive(prompt) == prompt /= ExitWord

\* the loop condition of run_model
SessionContinues(prompt) == Lower(prompt) /= ExitWord

\* datetime.now() at second resolution: the second of the last session or the next
NextSeconds == {t \in 0..MaxClock : t = log_path \/ t = log_path + 1}

\* handlers that start the exchange again after an error
LeaveSessionRetry(f, d, c, path, raised, before) ==
    IF raised /\ f.state = "open"
    THEN /\ log_disk' = d
         /\ log_file' = f
         /\ console' = Append(c, ErrorLine)
         /\ io' = before \o <<ErrorLine>>
         /\ pc' = "prompt_input"
    ELSE LET last == (IF raised THEN <<ErrorLine>> ELSE <<>>) \o <<Announcement(path)>> IN
         /\ log_disk' = IF f.state = "open" THEN CloseDisk(f, d) ELSE d
         /\ log_file' = IF f.state = "open" THEN CloseFile(f) ELSE f
         /\ console' = c \o last
         /\ io' = before \o last \o SecondaryMenuText
         /\ pc' = "menu_input"

\* the handlers of run_model: the with block is left (the file is closed),
\* except prints the error if one was raised, finally prints the path;
\* secondary_menu then shows its menu again
LeaveSession(f, d, c, path, raised, before) ==
    LET last == (IF raised THEN <<ErrorLine>> ELSE <<>>) \o <<Announcement(path)>> IN
    /\ log_disk' = IF f.state = "open" THEN CloseDisk(f, d) ELSE d
    /\ log_file' = IF f.state = "open" THEN CloseFile(f) ELSE f
    /\ console' = c \o last
    /\ io' = before \o last \o SecondaryMenuText
    /\ pc' = "menu_input"

\* Run: run_model up to its first prompt; the log cannot be opened in openable = FALSE
MenuRun(choice, t, openable) ==
    /\ pc = "menu_input"
    /\ Dispatch(choice) = "run"
    /\ t \in NextSeconds
    /\ log_path' = t
    /\ user_prompt' = <<>>
    /\ nprompts' = 0
    /\ nchunks' = 0
    /\ LET start == <<EvP("Running model:", <<selected_model.name>>)>>
           there == IF t = log_path THEN log_disk ELSE NoFile
       IN  IF openable
           THEN /\ log_disk' = OpenDisk(there)
                /\ log_file' = [state |-> "open", buf |-> <<>>]
                /\ console' = start
                /\ io' = <<Input(choice)>> \o start \o <<OpenCall(t, there)>>
                /\ pc' = "prompt_input"
           ELSE LeaveSession(NoHandle, there, start, t, TRUE, <<Input(choice)>> \o start)
    /\ UNCHANGED <<selected_model, modelfiles>>
    /\ UNCHANGED mainVars

\* os.makedirs fails before the try block: the error leaves run_model and main
MenuRunNoLogDir(choice) ==
    /\ pc = "menu_input"
    /\ Dispatch(choice) = "run"
    /\ io' = <<Input(choice), EvP("Running model:", <<selected_model.name>>)>>
    /\ pc' = "crashed"
    /\ UNCHANGED <<selected_model, modelfiles>>
    /\ UNCHANGED mainVars
    /\ UNCHANGED chatVars

\* a prompt is read: it is logged and flushed, the prefix is written, and
\* the chat call is made with it
PromptInput(prompt) ==
    /\ pc = "prompt_input"
    /\ nprompts < MaxPrompts
    /\ user_prompt' = prompt
    /\ nprompts' = nprompts + 1
    /\ nchunks' = 0
    /\ LET f1 == FileWrite(log_file, UserLine(prompt)) IN
        /\ log_disk' = FlushDisk(f1, log_disk)
        /\ log_file' = FileWrite(FlushFile(f1), AssistantPrefix)
    /\ io' = <<Input(prompt), EvP("ollama.chat", prompt)>>
    /\ pc' = "stream_next"
    /\ UNCHANGED <<selected_model, modelfiles, console, log_path>>
    /\ UNCHANGED mainVars

\* input() raises (end of input)
PromptFails ==
    /\ pc = "prompt_input"
    /\ LeaveSession(log_file, log_disk, console, log_path, TRUE, <<Ev("input: EOFError")>>)
    /\ UNCHANGED <<selected_model, modelfiles, user_prompt, nprompts, nchunks, log_path>>
    /\ UNCHANGED mainVars

\* the stream delivers a fragment: it is printed
StreamChunk ==
    /\ pc = "stream_next"
    /\ nchunks < MaxChunks
    /\ nchunks' = nchunks + 1
    /\ console' = Append(console, Fragment(nprompts, nchunks + 1))
    /\ io' = <<Fragment(nprompts, nchunks + 1)>>
    /\ pc' = "chunk_log"
    /\ UNCHANGED <<selected_model, modelfiles, user_prompt, nprompts, log_path, log_file, log_disk>>
    /\ UNCHANGED mainVars

\* the fragment printed is written to the log and flushed
ChunkLog ==
    /\ pc = "chunk_log"
    /\ LET f1 == FileWrite(log_file, Fragment(nprompts, nchunks)) IN
        /\ log_disk' = FlushDisk(f1, log_disk)
        /\ log_file' = FlushFile(f1)
    /\ io' = <<>>
    /\ pc' = "stream_next"
    /\ UNCHANGED <<selected_model, modelfiles, console, user_prompt, nprompts, nchunks, log_path>>
    /\ UNCHANGED mainVars

\* the stream ends: the separator goes to the log and the console, and the
\* loop condition is tested on the prompt just answered
StreamEnd ==
    /\ pc = "stream_next"
    /\ LET f1 == FileWrite(log_file, Separator)
           d1 == FlushDisk(f1, log_disk)
           c1 == Append(console, Separator)
       IN  IF SessionContinues(user_prompt)
           THEN /\ log_disk' = d1
                /\ log_file' = FlushFile(f1)
                /\ console' = c1
                /\ io' = <<Separator>>
                /\ pc' = "prompt_input"
           ELSE LeaveSession(FlushFile(f1), d1, c1, log_path, FALSE, <<Separator>>)
    /\ UNCHANGED <<selected_model, modelfiles, user_prompt, nprompts, nchunks, log_path>>
    /\ UNCHANGED mainVars

\* the chat call raises, at once or between two fragments
StreamFails ==
    /\ pc = "stream_next"
    /\ LeaveSession(log_file, log_disk, console, log_path, TRUE, <<>>)
    /\ UNCHANGED <<selected_model, modelfiles, user_prompt, nprompts, nchunks, log_path>>
    /\ UNCHANGED mainVars

\* ------------------------------------------------------------------ format
\* a value of the catalog's JSON: a string, or null
Str(text) == [none |-> FALSE, text |-> text]
NoneValue == [none |-> TRUE, text |-> <<>>]

\* dict.get(key, default)
Get(d, key, default) == IF key \in DOMAIN d THEN d[key] ELSE default

\* byte_size / (1024 ** 3) in hundredths, rounded half to even as ":.2f" and
\* round(x, 2) do on a quotient that is exact in binary; byte_size >= 0
BytesToGbHundredths(byte_size) ==
    LET whole == byte_size \div (1024 * 1024 * 1024)
        r == byte_size % (1024 * 1024 * 1024)
        \* r * 100 / 2^30 = r * 25 / 2^28, with r * 25 kept in two limbs of 14 bits
        x == (r \div 2^14) * 25
        y == (r % 2^14) * 25
        z == x + (y \div 2^14)
        h == z \div 2^14
        rest == (z % 2^14) * 2^14 + (y % 2^14)
        up == rest > 2^27 \/ (rest = 2^27 /\ h % 2 = 1)
    IN  whole * 100 + h + (IF up THEN 1 ELSE 0)

\* f"{bytes_to_gb(n):.2f}": a float keeps its sign when it rounds to zero
TwoDecimals(n) ==
    LET h == BytesToGbHundredths(IF n < 0 THEN 0 - n ELSE n) IN
    (IF n < 0 THEN <<"-">> ELSE <<>>)
    \o NatText(h \div 100) \o <<".", DigitChar((h % 100) \div 10), DigitChar(h % 10)>>

\* str(round(n / 1024 / 1024 / 1024, 2))
RoundedText(n) ==
    LET h == BytesToGbHundredths(n) IN
    FloatText([neg |-> FALSE, int |-> h \div 100,
               frac |-> DropTrailingZeros(<<DigitChar((h % 100) \div 10), DigitChar(h % 10)>>)])

GbSuffix == <<" ", "G", "B">>

\* one entry of the dict returned; m is 1 for the value None
Field(key, v) == [t |-> key, p |-> v.text, n |-> 0, m |-> IF v.none THEN 1 ELSE 0]

\* a format_model_details without the except clause
FormatModelDetailsNoExcept(model) ==
    LET details == Get(model, "details", <<>>)
        param_size == Get(details, "parameter_size", Str(<<>>))
        r == IF param_size.none THEN [ok |-> FALSE, val |-> 0] ELSE ParseInt(param_size.text)
    IN  IF "size" \notin DOMAIN model \/ ~r.ok
        THEN [raised |-> TRUE, value |-> <<>>]
        ELSE [raised |-> FALSE,
              value |-> <<Field("Name", Str(<<Get(model, "name", "")>>)),
                          Field("Family", Get(details, "family", Str(<<>>))),
                          Field("Parameter Size", Str(TwoDecimals(r.val) \o GbSuffix)),
                          Field("Quantization Level", Get(details, "quantization_level", Str(<<>>))),
                          Field("Size", Str(RoundedText(model.size) \o GbSuffix))>>]

\* format_model_details: the size of a model without "size" is "", whose
\* division raises TypeError; int() of a text that is no integer raises
\* ValueError and int(None) TypeError, and both are caught
FormatModelDetails(model) ==
    LET details == Get(model, "details", <<>>)
        param_size == Get(details, "parameter_size", Str(<<>>))
        r == IF param_size.none THEN [ok |-> FALSE, val |-> 0] ELSE ParseInt(param_size.text)
        param_size_display == IF r.ok THEN Str(TwoDecimals(r.val) \o GbSuffix) ELSE param_size
    IN  IF "size" \notin DOMAIN model
        THEN [raised |-> TRUE, value |-> <<>>]
        ELSE [raised |-> FALSE,
              value |-> <<Field("Name", Str(<<Get(model, "name", "")>>)),
                          Field("Family", Get(details, "family", Str(<<>>))),
                          Field("Parameter Size", param_size_display),
                          Field("Quantization Level", Get(details, "quantization_level", Str(<<>>))),
                          Field("Size", Str(RoundedText(model.size) \o GbSuffix))>>]

\* values of details.parameter_size: labels, texts int() accepts, null
ParameterSizes ==
    {Str(<<"u", "n", "k", "n", "o", "w", "n">>),
     Str(<<"7", "B">>),
     Str(<<>>),
     Str(<<"7", ".", "5">>),
     Str(<<"7">>),
     Str(<<"1", "0", "7", "3", "7", "4", "1", "8", "2", "4">>),
     Str(<<"1", "6", "1", "0", "6", "1", "2", "7", "3", "6">>),
     Str(<<"1", "3", "4", "2", "1", "7", "7", "2", "8">>),
     Str(<<"4", "0", "2", "6", "5", "3", "1", "8", "4">>),
     Str(<<" ", "4", "2", " ">>),
     Str(<<"-", "5">>),
     Str(<<"+", "1", "0", "7", "3", "7", "4", "1", "8", "2", "4">>),
     NoneValue}

\* the details of a catalog entry, with and without "parameter_size"
DetailsInputs ==
    {[family |-> Str(<<"llama">>), quantization_level |-> Str(<<"Q4_0">>)]}
    \cup {[family |-> Str(<<"llama">>), parameter_size |-> v,
           quantization_level |-> Str(<<"Q4_0">>)] : v \in ParameterSizes}

SizeInputs == {0, 134217728, 1073741824, 1610612736}

\* catalog entries given to format_model_details: with and without
\* "details", with and without "size"
FormatInputs ==
    {[name |-> "llama", size |-> n] : n \in SizeInputs}
    \cup {[name |-> "llama", details |-> d] : d \in DetailsInputs}
    \cup {[name |-> "llama", size |-> n, details |-> d] : n \in SizeInputs, d \in DetailsInputs}

\* the call format_model_details(models[1])
FormatStep ==
    /\ pc = "format"
    /\ LET r == FormatModelDetails(models[1]) IN
        /\ io' = r.value
        /\ pc' = IF r.raised THEN "crashed" ELSE "formatted"
    /\ UNCHANGED <<models, selected_model, check, modelfiles>>
    /\ UNCHANGED chatVars

\* ------------------------------------------------------------------ specification
Init ==
    /\ pc = "fetch"
    /\ models = <<>>
    /\ selected_model = NoModel
    /\ check = PyInt(0)
    /\ io = <<>>
    /\ console = <<>>
    /\ user_prompt = <<>>
    /\ nprompts = 0
    /\ nchunks = 0
    /\ log_path = -1
    /\ log_file = NoHandle
    /\ log_disk = NoFile
    /\ modelfiles = [f \in NewModelNames |-> [exists |-> FALSE, lines |-> <<>>]]

\* The whole program, every menu path of it. Its chat sessions are the
\* shortest ones: the user types the exit word and the stream delivers no
\* fragment before it ends or fails. SpecChat has the sessions in full.
Next ==
    \/ \E resp \in ServerResponses : MainFetch(resp)
    \/ \E text \in SelectInputs : SelectValid(text)
    \/ \E text \in SelectInputs : SelectInvalid(text)
    \/ \E choice \in MenuInputs : MenuBack(choice)
    \/ \E choice \in MenuInputs : MenuExit(choice)
    \/ \E choice \in MenuInputs : MenuInvalid(choice)
    \/ \E choice \in MenuInputs, resp \in ServerResponses : MenuDetails(choice, resp)
    \/ \E choice \in MenuInputs, name \in NewModelNames, script \in ParamScripts,
          outcome \in ToolOutcomes : MenuCopy(choice, name, script, outcome)
    \/ \E choice \in MenuInputs, name \in NewModelNames, script \in ParamScripts :
          MenuCopyParseError(choice, name, script)
    \/ \E choice \in MenuInputs, t \in 0..MaxClock, openable \in BOOLEAN :
          MenuRun(choice, t, openable)
    \/ \E choice \in MenuInputs : MenuRunNoLogDir(choice)
    \/ \E prompt \in {ExitWord} : PromptInput(prompt)
    \/ PromptFails
    \/ StreamEnd
    \/ StreamFails

Spec == Init /\ [][Next]_vars

\* The program with a user who selects a model and runs chat sessions with
\* it, one after the other, until Exit: every prompt of Prompts, every
\* stream length and every failure of a session.
ChatMenuInputs == {<<"1">>, <<"5">>}
ChatResponses == {[reachable |-> TRUE, status_code |-> 200,
                   json |-> [models |-> <<[name |-> "llama"], [name |-> "phi"]>>]]}

NextChat ==
    \/ \E resp \in ChatResponses : MainFetch(resp)
    \/ \E text \in SelectInputs : SelectValid(text)
    \/ \E choice \in ChatMenuInputs : MenuExit(choice)
    \/ \E choice \in ChatMenuInputs, t \in 0..MaxClock, openable \in BOOLEAN :
          MenuRun(choice, t, openable)
    \/ \E prompt \in Prompts : PromptInput(prompt)
    \/ PromptFails
    \/ StreamChunk
    \/ ChunkLog
    \/ StreamEnd
    \/ StreamFails

SpecChat == Init /\ [][NextChat]_vars

\* format_model_details alone, on each of FormatInputs
InitFormat ==
    /\ pc = "format"
    /\ models \in {<<model>> : model \in FormatInputs}
    /\ selected_model = NoModel
    /\ check = PyInt(0)
    /\ io = <<>>
    /\ console = <<>>
    /\ user_prompt = <<>>
    /\ nprompts = 0
    /\ nchunks = 0
    /\ log_path = -1
    /\ log_file = NoHandle
    /\ log_disk = NoFile
    /\ modelfiles = [f \in NewModelNames |-> [exists |-> FALSE, lines |-> <<>>]]

NextFormat == FormatStep

SpecFormat == InitFormat /\ [][NextFormat]_vars

\* ------------------------------------------------------------------ properties
Range(seq) == {seq[i] : i \in 1..Len(seq)}
Last(seq) == seq[Len(seq)]
EndsWith(seq, tail) ==
    /\ Len(tail) <= Len(seq)
    /\ SubSeq(seq, Len(seq) - Len(tail) + 1, Len(seq)) = tail
Count(seq, x) == Cardinality({i \in 1..Len(seq) : seq[i] = x})

InSession == pc \in {"prompt_input", "stream_next", "chunk_log"}
Fragments(r, k) == [i \in 1..k |-> Fragment(r, i)]

\* the last step was the failure of the chat stream, of input(), of open()
StreamFailed == pc = "menu_input" /\ io = <<ErrorLine, Announcement(log_path)>> \o SecondaryMenuText
PromptFailed == pc = "menu_input" /\ io /= <<>> /\ io[1] = Ev("input: EOFError")
OpenFailed == pc = "menu_input" /\ log_path >= 0 /\ log_file.state = "none"
\* the last step was the end of a session by the exit word
SessionExited ==
    pc = "menu_input" /\ io = <<Separator, Announcement(log_path)>> \o SecondaryMenuText

\* C1: when the prompt just read is the exit word in any letter case, no chat
\* call is open for it, and a session whose first prompt is the exit word
\* ends with a log that has no "Assistant: " entry. The code tests the prompt
\* at the top of the loop only, after the exchange: this is violated.
C1_ExitLeavesBeforeStreaming ==
    /\ pc = "stream_next" => SessionContinues(user_prompt)
    /\ (SessionExited /\ nprompts = 1) => AssistantPrefix \notin Range(log_disk.content)

\* C2: a catalog fetch that cannot reach the server never ends the program
\* abnormally: no step that made the GET leaves the program crashed. The
\* code does not catch the exception of requests.get: this is violated.
C2_UnreachableServerIsNoModels ==
    Ev("GET /api/tags/") \in Range(io) => pc /= "crashed"

\* the last step read the menu choice '3', a name and at least one parameter
\* and did nothing else: a Copy stopped by an answer that does not parse
CopyAborted ==
    /\ Len(io) >= 3
    /\ io[1] = Input(<<"3">>)
    /\ \A i \in 1..Len(io) : io[i].t = "input"

\* C3: a Copy whose parameter does not parse is aborted alone: an error is
\* printed and the program is back at a menu or ended normally. The code
\* lets ValueError leave secondary_menu and main: this is violated.
C3_CopyParseErrorReturnsToMenu ==
    CopyAborted => pc \in {"menu_input", "done"}

\* a log of complete exchanges: "User: ", "Assistant: ", the fragments of the
\* response in order, the separator; r is the number of the first of them
RECURSIVE CompleteExchanges(_, _)
CompleteExchanges(log, r) ==
    \/ log = <<>>
    \/ /\ Len(log) >= 3
       /\ log[1].t = "User: "
       /\ log[2] = AssistantPrefix
       /\ \E k \in 0..(Len(log) - 3) :
            /\ SubSeq(log, 3, 2 + k) = Fragments(r, k)
            /\ log[3 + k] = Separator
            /\ CompleteExchanges(SubSeq(log, 4 + k, Len(log)), r + 1)

\* C4: when the chat stream fails after k fragments of the answer to a
\* prompt, run_model returns with the log closed and holding, in order, the
\* complete exchanges of the earlier prompts, "User: <prompt>", "Assistant: "
\* and the k fragments, with no separator after them; the error and then the
\* path of the log are the last lines printed.
C4_StreamFailureKeepsLog ==
    StreamFailed =>
        LET tail == <<UserLine(user_prompt), AssistantPrefix>> \o Fragments(nprompts, nchunks)
            log == log_disk.content
        IN  /\ log_file.state = "closed"
            /\ log_disk.exists
            /\ EndsWith(log, tail)
            /\ CompleteExchanges(SubSeq(log, 1, Len(log) - Len(tail)), 1)
            /\ Len(log) - Len(tail) > 0 <=> nprompts > 1
            /\ EndsWith(console, <<ErrorLine, Announcement(log_path)>>)

\* a stream failed after two fragments of the answer to the second prompt
C4_Witness == StreamFailed /\ nprompts = 2 /\ nchunks = 2

\* the last step ended a session whose log was opened
JustReturned == StreamFailed \/ PromptFailed \/ SessionExited

\* what was written last to the log of the session that just ended
LastWritten ==
    IF StreamFailed
    THEN IF nchunks = 0 THEN AssistantPrefix ELSE Fragment(nprompts, nchunks)
    ELSE Separator

\* C5: once run_model has reached the opening of the log, it returns with
\* the log, if it was opened, closed and holding all that was written, and
\* with the path of the log printed once, as the last line of the session:
\* after the exit word, a failure of input(), of the stream, or of open().
C5_LogClosedAndAnnounced ==
    /\ InSession =>
        /\ log_file.state = "open"
        /\ Announcement(log_path) \notin Range(console)
    /\ (~InSession /\ log_path >= 0) =>
        /\ log_file.state \in {"closed", "none"}
        /\ log_file.buf = <<>>
        /\ console /= <<>>
        /\ Last(console) = Announcement(log_path)
        /\ Count(console, Announcement(log_path)) = 1
    /\ JustReturned =>
        /\ log_file.state = "closed"
        /\ IF nprompts = 0
           THEN log_disk.content = <<>>
           ELSE Last(log_disk.content) = LastWritten
    /\ OpenFailed =>
        EndsWith(console, <<ErrorLine, Announcement(log_path)>>)

\* a session ended by a failure of input() after a complete exchange
C5_Witness == PromptFailed /\ nprompts = 1 /\ log_file.state = "closed"

\* the number a text of SelectInputs writes, read by hand; the others write none
NumbersTyped ==
    {<<<<"1">>, 1>>, <<<<"2">>, 2>>, <<<<"3">>, 3>>, <<<<"0">>, 0>>, <<<<"-", "1">>, -1>>,
     <<<<"+", "2">>, 2>>, <<<<" ", "1", " ">>, 1>>}
IsNumberTyped(text) == \E e \in NumbersTyped : e[1] = text
NumberTyped(text) == (CHOOSE e \in NumbersTyped : e[1] = text)[2]

\* C6: select_model asks again, with a message, for a text that is no
\* integer or an integer outside 1..len(models), returns models[n-1] (the
\* n-th of the list) for the first n inside, and never changes the list.
C6_SelectModel ==
    [][pc = "select_input" =>
        LET text == io'[1].p IN
        /\ io'[1] = Input(text)
        /\ models' = models
        /\ IF IsNumberTyped(text) /\ 1 <= NumberTyped(text) /\ NumberTyped(text) <= Len(models)
           THEN /\ pc' = "menu_input"
                /\ selected_model' = models[NumberTyped(text)]
           ELSE /\ pc' = "select_input"
                /\ selected_model' = selected_model
                /\ Len(io') = 2
                /\ io'[2].t \in {"Please enter a valid number.",
                                 "Invalid selection. Please choose a valid number."}]_vars

\* the second model of a catalog of two was selected with the text "+2"
C6_Witness ==
    /\ pc = "menu_input"
    /\ io = <<Input(<<"+", "2">>)>> \o SecondaryMenuText
    /\ Len(models) = 2
    /\ selected_model = models[2]

NoModelsFound == Ev("No models found.")
Printed(what) == \E i \in 1..Len(io) : io[i].t = what

\* C7: whenever the catalog fetched at the top of main's loop is empty (an
\* empty array, or a status other than 200), main prints "No models found."
\* and returns: no table, no selection, no secondary menu; in the first
\* cycle and in a cycle reached through Back.
C7_EmptyCatalogEndsMain ==
    [][(pc = "fetch" /\ pc' /= "crashed") =>
        /\ (\E i \in 1..Len(io') : io'[i].t = "Failed to retrieve models") => models' = <<>>
        /\ models' = <<>> =>
            /\ pc' = "done"
            /\ Last(io') = NoModelsFound
            /\ \A i \in 1..Len(io') :
                  io'[i].t \notin {"Installed Models:", "row", "input", "Secondary Menu:"}
            /\ selected_model' = NoModel]_vars

\* main ended on an empty catalog in a cycle reached through Back
C7_Witness == pc = "done" /\ check = PyNone /\ models = <<>> /\ Last(io) = NoModelsFound

\* C8 as stated: the cycle that Back starts renders the table and asks for a
\* selection (unless the fetch itself fails). It does not when the catalog
\* fetched is empty: main then ends.
C8_BackRendersTable ==
    [][(pc = "fetch" /\ check = PyNone /\ pc' /= "crashed") =>
        (pc' = "select_input" /\ io'[2] = Ev("Installed Models:"))]_vars

\* C8 amended: Back ('4') ends secondary_menu without ending main: the model
\* is no longer bound and main is at the top of its loop, where the catalog
\* is fetched again; a catalog that is not empty is rendered and a selection
\* is asked for, an empty one ends main with "No models found.".
C8_BackStartsNewCycle ==
    [][/\ (pc = "menu_input" /\ io'[1] = Input(<<"4">>)) =>
            /\ pc' = "fetch"
            /\ check' = PyNone
            /\ selected_model' = NoModel
            /\ io' = <<Input(<<"4">>)>>
            /\ models' = models
       /\ (pc = "fetch" /\ check = PyNone) =>
            /\ io'[1] = Ev("GET /api/tags/")
            /\ (pc' /= "crashed" /\ models' /= <<>>) =>
                  /\ pc' = "select_input"
                  /\ io' = <<Ev("GET /api/tags/")>> \o PrintModelMenu(models')
                  /\ selected_model' = NoModel
            /\ (pc' /= "crashed" /\ models' = <<>>) =>
                  /\ pc' = "done"
                  /\ Last(io') = NoModelsFound]_vars

\* Back was just chosen: main is about to fetch the catalog again
C8_Witness ==
    /\ pc = "fetch"
    /\ io = <<Input(<<"4">>)>>
    /\ check = PyNone
    /\ selected_model = NoModel
    /\ models /= <<>>

\* C9: main returns normally on two paths only: after "No models found.", or
\* after Exit ('5'), when secondary_menu returns -1 and main returns at once,
\* with no fetch, table or console read after the choice; no other choice
\* makes main return.
C9_MainReturns ==
    [][/\ (pc = "menu_input" /\ io'[1] = Input(<<"5">>)) =>
            /\ pc' = "done"
            /\ check' = PyInt(-1)
            /\ io' = <<Input(<<"5">>)>>
       /\ (pc /= "done" /\ pc' = "done") =>
            \/ pc = "menu_input" /\ io'[1] = Input(<<"5">>)
            \/ pc = "fetch" /\ models' = <<>> /\ Last(io') = NoModelsFound]_vars

\* main returned after Exit
C9_Witness == pc = "done" /\ check = PyInt(-1) /\ io = <<Input(<<"5">>)>>

ValidChoices == {<<"1">>, <<"2">>, <<"3">>, <<"4">>, <<"5">>}

\* C10: a text other than '1'..'5' typed at the secondary menu is reported
\* as invalid and the menu is shown again; nothing else happens: the model
\* bound, the catalog, the files and the session state stay as they are.
C10_InvalidChoice ==
    [][(pc = "menu_input" /\ io'[1].p \notin ValidChoices) =>
        /\ io' = <<io'[1], Ev("Invalid option. Please try again.")>> \o SecondaryMenuText
        /\ io'[1].t = "input"
        /\ UNCHANGED <<pc, models, selected_model, check, modelfiles>>
        /\ UNCHANGED chatVars]_vars

\* the text "5 " was typed at the secondary menu
C10_Witness ==
    /\ pc = "menu_input"
    /\ io = <<Input(<<"5", " ">>), Ev("Invalid option. Please try again.")>> \o SecondaryMenuText

\* what str() writes for the number a text of ParamScripts is parsed to, by hand
WrittenTexts ==
    {<<<<"0", ".", "7">>, <<"0", ".", "7">>>>,
     <<<<"1">>, <<"1", ".", "0">>>>,
     <<<<"2", "0", "4", "8">>, <<"2", "0", "4", "8">>>>,
     <<<<"5", "0">>, <<"5", "0">>>>,
     <<<<"0", ".", "9">>, <<"0", ".", "9">>>>,
     <<<<"0", ".", "0", "1">>, <<"0", ".", "0", "1">>>>}
Written(text) == (CHOOSE e \in WrittenTexts : e[1] = text)[2]
ParameterKeys == <<"temperature", "num_ctx", "top_k", "top_p", "min_p">>
At(seq, what) == {i \in 1..Len(seq) : seq[i].t = what}

\* C11: a Copy whose five answers parse writes <name>.modelfile with the
\* line "FROM <selected model>" and one "PARAMETER <key> <value>" line per
\* parameter, in the order temperature, num_ctx, top_k, top_p, min_p, and
\* nothing else; the tool is run once, after the file is written, as
\* create <name> -f <name>.modelfile.
C11_CopyWritesThenCreates ==
    [][(pc = "menu_input" /\ io'[1] = Input(<<"3">>) /\ pc' /= "crashed") =>
        LET name == io'[2].p[1]
            file == modelfiles'[name]
        IN  /\ \A i \in 1..5 : io'[2 + i].t = "input"
            /\ file.exists
            /\ file.lines =
                  <<EvP("FROM", <<selected_model.name>>)>>
                  \o [i \in 1..5 |->
                        EvP("PARAMETER", <<ParameterKeys[i]>> \o Written(io'[2 + i].p))]
            /\ At(io', "write") = {8}
            /\ io'[8] = EvP("write", <<name, ".modelfile">>)
            /\ At(io', "ollama create") = {9}
            /\ io'[9] = EvP("ollama create", <<name, "-f", name, ".modelfile">>)]_vars

\* a Copy was made with the integer "1" typed for the temperature
C11_Witness ==
    /\ pc = "menu_input"
    /\ Len(io) > 9
    /\ io[1] = Input(<<"3">>)
    /\ io[3] = Input(<<"1">>)
    /\ io[9].t = "ollama create"
    /\ modelfiles["m2"].exists

\* C12: when the tool exits with a status other than zero or cannot be
\* started, the error is printed in place of the success message, and the
\* secondary menu is shown again for the same model; with status zero the
\* success message is printed.
C12_ToolFailureIsReported ==
    [][(pc = "menu_input" /\ At(io', "subprocess.run") /= {}) =>
        LET k == CHOOSE i \in At(io', "subprocess.run") : TRUE
            failed == io'[k].p /= <<"ok">>
        IN  /\ io'[k + 1].t = IF failed THEN "Error creating model:" ELSE "Model created successfully."
            /\ failed => At(io', "Model created successfully.") = {}
            /\ ~failed => At(io', "Error creating model:") = {}
            /\ pc' = "menu_input"
            /\ selected_model' = selected_model
            /\ selected_model' /= NoModel
            /\ Len(io') = k + 2
            /\ io'[k + 2] = SecondaryMenuText[1]]_vars

\* the tool could not be started, and the menu is shown again
C12_Witness ==
    /\ pc = "menu_input"
    /\ At(io, "subprocess.run") /= {}
    /\ \E i \in 1..Len(io) : io[i] = ToolResult("missing")
    /\ At(io, "Error creating model:") /= {}

\* the prompts of Prompts that equal "exit" when case is ignored, by hand
ExitTexts == {<<"e", "x", "i", "t">>, <<"E", "x", "i", "T">>}
ShowsMenuAgain(events) == Len(events) > 0 /\ Last(events) = SecondaryMenuText[1]

\* C13: once a prompt that is "exit" in some letter case has been read, no
\* further prompt is read in the session, and the session ends with the log
\* closed and the secondary menu shown; when the stream of any other prompt
\* (the empty one included) completes, the session goes on to the next
\* prompt with the log open.
C13_ExitEndsSession ==
    [][/\ (pc = "prompt_input" /\ nprompts > 0) => user_prompt \notin ExitTexts
       /\ (pc \in {"stream_next", "chunk_log"} /\ user_prompt \in ExitTexts) =>
             /\ At(io', "input") = {}
             /\ pc' \in {"stream_next", "chunk_log", "menu_input"}
             /\ pc' = "menu_input" =>
                   /\ log_file'.state = "closed"
                   /\ ShowsMenuAgain(io')
                   /\ selected_model' = selected_model
       /\ (pc = "stream_next" /\ Separator \in Range(io')) =>
             IF user_prompt \in ExitTexts
             THEN pc' = "menu_input"
             ELSE pc' = "prompt_input" /\ log_file'.state = "open"
       /\ (pc = "stream_next" /\ user_prompt \notin ExitTexts /\ pc' = "menu_input") =>
             ErrorLine \in Range(io')]_vars

\* the second prompt of a session was "ExiT", and the session ended on it
C13_Witness ==
    /\ pc = "menu_input"
    /\ nprompts = 2
    /\ user_prompt = <<"E", "x", "i", "T">>
    /\ Separator \in Range(io)
    /\ ErrorLine \notin Range(io)
    /\ log_file.state = "closed"

\* C14: when the chat call fails, at once or between two fragments, the
\* error is printed, nothing is asked of the model or of the user any more,
\* the log is closed, and the secondary menu is shown again for the same
\* model: the session is not retried and the program does not end.
C14_StreamFailureEndsSession ==
    [][(pc = "stream_next" /\ ErrorLine \in Range(io')) =>
          /\ pc' = "menu_input"
          /\ ErrorLine \in Range(console')
          /\ At(io', "ollama.chat") = {}
          /\ At(io', "input") = {}
          /\ nprompts' = nprompts
          /\ log_file'.state = "closed"
          /\ selected_model' = selected_model
          /\ selected_model' /= NoModel
          /\ check' = check
          /\ ShowsMenuAgain(io')]_vars

\* the stream failed after its first fragment
C14_Witness ==
    /\ StreamFailed
    /\ nchunks = 1
    /\ pc = "menu_input"
    /\ user_prompt \notin ExitTexts

IsPrefix(a, b) == Len(a) <= Len(b) /\ SubSeq(b, 1, Len(a)) = a
IsFragment(e) == e.t = "fragment"
\* everything written to the log so far, flushed or not
Logged == log_disk.content \o log_file.buf

\* C16: while the chat call of a prompt is open and no fragment has
\* arrived, "User: <prompt>" is the last thing in the log file on disk and
\* only "Assistant: " is buffered; a fragment that has arrived is the last
\* thing on the console before it is in the log, and is flushed to the log,
\* after the earlier fragments, before the next one is taken; the separator
\* of a prompt is in neither the log nor the console while its stream runs,
\* and is the last thing in both when the next prompt is read.
C16_WriteOrder ==
    /\ (pc = "stream_next" /\ nchunks = 0) =>
          /\ log_disk.content /= <<>>
          /\ Last(log_disk.content) = UserLine(user_prompt)
          /\ log_file.buf = <<AssistantPrefix>>
    /\ pc = "chunk_log" =>
          /\ Last(console) = Fragment(nprompts, nchunks)
          /\ Fragment(nprompts, nchunks) \notin Range(Logged)
          /\ EndsWith(Logged, <<UserLine(user_prompt), AssistantPrefix>>
                                  \o Fragments(nprompts, nchunks - 1))
    /\ (pc = "stream_next" /\ nchunks > 0) =>
          /\ log_file.buf = <<>>
          /\ EndsWith(log_disk.content, <<UserLine(user_prompt), AssistantPrefix>>
                                            \o Fragments(nprompts, nchunks))
          /\ EndsWith(console, Fragments(nprompts, nchunks))
    /\ pc \in {"stream_next", "chunk_log"} =>
          /\ Count(Logged, Separator) = nprompts - 1
          /\ Count(console, Separator) = nprompts - 1
    /\ (pc = "prompt_input" /\ nprompts > 0) =>
          /\ log_file.buf = <<>>
          /\ Last(log_disk.content) = Separator
          /\ Last(console) = Separator
          /\ Count(log_disk.content, Separator) = nprompts
          /\ Count(console, Separator) = nprompts

\* the second fragment of the second prompt is printed and not yet logged
C16_Witness ==
    /\ pc = "chunk_log"
    /\ nprompts = 2
    /\ nchunks = 2
    /\ Last(log_disk.content) = Fragment(2, 1)

\* C17: from one step of a session to the next, what is in the log file on
\* disk, and what has been written to it in all, only grows at the end; and
\* the step that ends the session, by the exit word or by an error, leaves
\* the file closed with all that was written in it.
C17_LogAppendOnly ==
    [][InSession =>
          IF InSession'
          THEN /\ IsPrefix(log_disk.content, log_disk'.content)
               /\ IsPrefix(Logged, Logged')
               /\ log_file'.state = "open"
          ELSE /\ IsPrefix(Logged, log_disk'.content)
               /\ log_file'.state = "closed"]_vars

\* a session ended by an error of input() after one complete exchange
C17_Witness ==
    /\ PromptFailed
    /\ nprompts = 1
    /\ nchunks = 2
    /\ log_file.state = "closed"
    /\ Last(log_disk.content) = Separator

\* C20: as long as the log of a session is open or has been closed, the
\* fragments in the log are a prefix of the fragments on the console, the
\* console is ahead by at most one fragment, and by none unless a fragment
\* has been printed and not yet logged.
C20_LogFollowsConsole ==
    log_file.state \in {"open", "closed"} =>
        LET inLog == SelectSeq(Logged, IsFragment)
            onConsole == SelectSeq(console, IsFragment)
        IN  /\ IsPrefix(inLog, onConsole)
            /\ Len(onConsole) - Len(inLog) <= 1
            /\ pc /= "chunk_log" => inLog = onConsole
            /\ pc = "chunk_log" => Len(onConsole) = Len(inLog) + 1

\* a stream of two fragments completed, and the session goes on
C20_Witness ==
    /\ pc = "prompt_input"
    /\ nprompts = 1
    /\ SelectSeq(console, IsFragment) = Fragments(1, 2)
    /\ SelectSeq(log_disk.content, IsFragment) = Fragments(1, 2)

\* C18: when a session is started in the second in which the session before
\* it opened its log, its log has the name of that log; opening it
\* succeeds without any error printed and leaves the file empty, so that what
\* the earlier session wrote is gone.
C18_SameSecondOverwrites ==
    [][(pc = "menu_input" /\ At(io', "open w") /= {} /\ log_path' = log_path
            /\ log_disk.exists) =>
          /\ Announcement(log_path') = Announcement(log_path)
          /\ io'[3] = OpenCall(log_path, log_disk)
          /\ log_disk' = [exists |-> TRUE, content |-> <<>>]
          /\ log_file' = [state |-> "open", buf |-> <<>>]
          /\ ErrorLine \notin Range(io')
          /\ ErrorLine \notin Range(console')
          /\ pc' = "prompt_input"]_vars

\* a session has just opened a log that held the transcript of another
C18_Witness ==
    /\ pc = "prompt_input"
    /\ nprompts = 0
    /\ Len(io) = 3
    /\ io[3].t = "open w"
    /\ io[3].m >= 3
    /\ log_disk.content = <<>>

Fetches(events) == At(events, "GET /api/tags/")

\* main's part of a cycle: one fetch at the top of the loop, the table
\* rendered from the list fetched, the selection taken from that list with
\* no fetch in between, and the model bound until Back or Exit
C19_MainCycle ==
    /\ pc = "fetch" => Fetches(io') = {1}
    /\ (pc = "fetch" /\ pc' = "select_input") =>
          /\ Len(io') = 2 + Len(models')
          /\ \A i \in 1..Len(models') :
                io'[2 + i] = [t |-> "row", p |-> <<models'[i].name>>, n |-> i, m |-> 0]
    /\ pc = "select_input" =>
          /\ Fetches(io') = {}
          /\ models' = models
          /\ pc' \in {"select_input", "menu_input"}
          /\ pc' = "select_input" => selected_model' = selected_model
          /\ pc' = "menu_input" =>
                /\ selected_model' = models[NumberTyped(io'[1].p)]
                /\ At(io, "row") /= {} =>
                      \E i \in At(io, "row") :
                          /\ io[i].n = NumberTyped(io'[1].p)
                          /\ io[i].p = <<selected_model'.name>>
    /\ (pc = "menu_input" /\ io'[1] \notin {Input(<<"4">>), Input(<<"5">>)}) =>
          /\ selected_model' = selected_model
          /\ selected_model' /= NoModel
          /\ models' = models
          /\ pc' \in {"menu_input", "prompt_input", "crashed"}
    /\ InSession => (selected_model' = selected_model /\ models' = models)

\* the catalog is requested from the server at the top of main's loop only
C19_NoOtherFetch == pc /= "fetch" => Fetches(io') = {}

\* C19 as stated: one fetch of the catalog in each cycle of main's loop, the
\* list rendered and selected from being the one fetched, and the model bound
\* across Run, Show Details, Copy and invalid choices. Show Details fetches
\* the catalog again inside the cycle: this is violated.
C19_OneFetchPerCycle == [][C19_MainCycle /\ C19_NoOtherFetch]_vars

\* C19, amended: main fetches the catalog once in each cycle, renders its
\* rows numbered from 1 and selects from the same list, so that selection n
\* is the model of row n; invalid selections fetch nothing; the bound model
\* and main's list stay the same across Run, Show Details, Copy and invalid
\* choices until Back or Exit. A fetch outside the top of the loop is the
\* one Show Details makes for itself, once for each use.
C19_CatalogAndSelection ==
    [][/\ C19_MainCycle
       /\ (pc /= "fetch" /\ Fetches(io') /= {}) =>
             /\ pc = "menu_input"
             /\ io'[1] = Input(<<"2">>)
             /\ io'[2] = EvP("Details for model:", <<selected_model.name>>)
             /\ Fetches(io') = {3}]_vars

\* Show Details fetched the catalog again for the second model of main's list
C19_Witness ==
    /\ pc = "menu_input"
    /\ Len(models) = 2
    /\ selected_model = models[2]
    /\ Len(io) >= 3
    /\ io[1] = Input(<<"2">>)
    /\ Fetches(io) = {3}

\* the texts of ParameterSizes that are no integer literal, by hand
NotIntegers == {<<"u", "n", "k", "n", "o", "w", "n">>, <<"7", "B">>, <<>>, <<"7", ".", "5">>}
\* what the integer texts of ParameterSizes are rendered as, by hand
RenderedTexts ==
    {<<<<"7">>, <<"0", ".", "0", "0", " ", "G", "B">>>>,
     <<<<"1", "0", "7", "3", "7", "4", "1", "8", "2", "4">>, <<"1", ".", "0", "0", " ", "G", "B">>>>,
     <<<<"1", "6", "1", "0", "6", "1", "2", "7", "3", "6">>, <<"1", ".", "5", "0", " ", "G", "B">>>>,
     <<<<"1", "3", "4", "2", "1", "7", "7", "2", "8">>, <<"0", ".", "1", "2", " ", "G", "B">>>>,
     <<<<"4", "0", "2", "6", "5", "3", "1", "8", "4">>, <<"0", ".", "3", "8", " ", "G", "B">>>>,
     <<<<" ", "4", "2", " ">>, <<"0", ".", "0", "0", " ", "G", "B">>>>,
     <<<<"-", "5">>, <<"-", "0", ".", "0", "0", " ", "G", "B">>>>,
     <<<<"+", "1", "0", "7", "3", "7", "4", "1", "8", "2", "4">>, <<"1", ".", "0", "0", " ", "G", "B">>>>}

\* the raw value format_model_details reads for "Parameter Size"
RawParameterSize(model) ==
    IF "details" \in DOMAIN model /\ "parameter_size" \in DOMAIN model.details
    THEN model.details.parameter_size
    ELSE Str(<<>>)

\* C15: on a catalog entry that has a size, format_model_details returns
\* whatever details.parameter_size is; a value that is a text but no integer
\* literal, null, or absent (then the empty text) is the "Parameter Size" of
\* the result as it is, and a text that is an integer literal is rendered
\* as its value over 1024^3 with two decimals and the suffix " GB".
C15_ParameterSizePassThrough ==
    LET model == models[1]
        raw == RawParameterSize(model)
    IN  /\ (pc = "crashed" /\ Len(models) = 1) => "size" \notin DOMAIN model
        /\ pc = "formatted" =>
              /\ io[3].t = "Parameter Size"
              /\ IF raw.none \/ raw.text \in NotIntegers
                 THEN io[3] = Field("Parameter Size", raw)
                 ELSE /\ \E e \in RenderedTexts : e[1] = raw.text /\ io[3].p = e[2]
                      /\ io[3].m = 0
                      /\ EndsWith(io[3].p, GbSuffix)

\* the label "7B" was formatted
C15_Witness ==
    /\ pc = "formatted"
    /\ RawParameterSize(models[1]) = Str(<<"7", "B">>)
    /\ io[3] = Field("Parameter Size", Str(<<"7", "B">>))

====
